---- MODULE Spec2Model ----
(***************************************************************************)
(* A model of the chunked transcription pipeline of the audio/video        *)
(* transcriber: the retry decorator, the chunk planner of split_media,      *)
(* and the job registry with its background workers.                        *)
(*                                                                         *)
(* The specifications of the module:                                       *)
(*   SpecRetry      one call of a function wrapped by retry_on_error        *)
(*   SpecAttempts   one call of a function wrapped by retry_on_exception    *)
(*   SpecPlan       one call of split_media's planning arithmetic           *)
(*   Spec           sessions, submissions, resets and background workers    *)
(*   SpecFair       the workers of one session, under fair scheduling       *)
(*   SpecCleanup    calls of cleanup_temp_files on a filesystem             *)
(*   SpecProcessor  one call of MediaProcessorService.transcribe            *)
(*                                                                         *)
(* Sizes are counted in KiB (the code counts bytes; every size the model    *)
(* uses is a whole number of KiB, so 1 MiB = 1024 units).  Floats are       *)
(* binary floating point numbers rounded to nearest-even after every        *)
(* operation, as the code's doubles are, with a significand of              *)
(* PrecisionBits bits instead of 53; every input the model draws is         *)
(* exactly representable.                                                   *)
(***************************************************************************)
EXTENDS Integers, Sequences, FiniteSets, TLC

VARIABLES
    rw,             \* the state of one retry_on_error wrapper call
    sp,             \* the state of one split_media planning call
    user_sessions,  \* session id -> which of the session's dicts the key is
                    \* bound to (0: key absent)
    stores,         \* session id -> the dicts {'transcriptions',
                    \* 'processing_jobs'} the key was ever bound to, oldest
                    \* first; a worker may still hold an older one
    workers,        \* job id -> request handler / background thread state
    tmpfiles,       \* temporary files (chunks, downloads) that exist
    transcription_files, \* job id -> content of transcriptions/<job_id>.txt
    resetting,      \* the sessions with a reset request past its removal of
                    \* files and before its replacement of the session's dict
    ghost,          \* history: resets per session; per job the chunk files
                    \* created, the transcription operations started, the
                    \* cleanups of chunk files invoked and the calls of
                    \* URLService.download_from_url
    ct,             \* the state of calls of cleanup_temp_files on a filesystem
    mp              \* the state of one MediaProcessorService.transcribe call

vars == <<rw, sp, user_sessions, stores, workers, tmpfiles, transcription_files,
          resetting, ghost, ct, mp>>

retryVars == <<rw>>
planVars == <<sp>>
jobVars == <<user_sessions, stores, workers, tmpfiles, transcription_files, resetting,
            ghost>>
cleanVars == <<ct>>
serviceVars == <<mp>>
otherVars == <<rw, sp, ct, mp>>
requestVars == <<resetting>>

(***************************************************************************)
(* Bounds of the model.                                                     *)
(***************************************************************************)
MaxRetries == 3       \* largest max_retries tried in SpecRetry
MaxFailures == 3      \* longest run of failing calls before a success
NegRetries == 1       \* max_retries goes down to -NegRetries in SpecRetry
MaxDuration == 5      \* largest duration tried in SpecPlan
MaxSize == 6          \* largest file size tried in SpecPlan
MaxChunkBytes == 4    \* largest target chunk size tried in SpecPlan
PrecisionBits == 12   \* bits of a float's significand (the code's doubles: 53)

None == "None"
NoText == <<None>>      \* Python's None where a text (a sequence of words) may be
Values == {"v1", "v2"}

(***************************************************************************)
(* The parts a specification does not exercise stay in these states.        *)
(***************************************************************************)
Sessions == {"s1", "s2"}

RetryIdle == rw = [pc |-> "idle"]
PlanIdle == sp = [pc |-> "idle"]
CleanIdle == ct = [pc |-> "idle"]
ServiceIdle == mp = [pc |-> "idle"]
JobsIdle ==
    /\ user_sessions = [s \in Sessions |-> 0]
    /\ stores = [s \in Sessions |-> <<>>]
    /\ workers = <<>>
    /\ tmpfiles = {}
    /\ transcription_files = <<>>
    /\ resetting = {}
    /\ ghost = [resets |-> [s \in Sessions |-> 0], chunk_files |-> <<>>,
                operations |-> <<>>, cleanups |-> <<>>, downloads |-> <<>>]

(***************************************************************************)
(* retry_on_error                                                          *)
(***************************************************************************)

RetryLoopIncludesBound(retries, max_retries) == retries <= max_retries

\* while retries < max_retries
RetryLoopContinues(retries, max_retries) == retries < max_retries

RaiseOffByOne(retries, max_retries) == retries + 1 >= max_retries - 1

RetryNeverRaises(retries, max_retries) == FALSE

\* after retries += 1: if retries == max_retries: raise
RetryRaises(retries, max_retries) == retries + 1 = max_retries

\* the wrapped function: raises on every call, or on its first `fails` calls
FuncRaises(func, call) == func.always \/ call <= func.fails

RetryInit ==
    rw \in { [max_retries |-> n, func |-> [always |-> a, fails |-> k, value |-> v],
              pc |-> "loop", retries |-> 0, calls |-> 0, sleeps |-> 0,
              result |-> None, raised |-> 0] :
             n \in (0 - NegRetries)..MaxRetries, a \in BOOLEAN, k \in 0..MaxFailures,
             v \in Values }

\* the loop test; falling out of the loop returns None
WrapperLoop ==
    /\ rw.pc = "loop"
    /\ IF RetryLoopContinues(rw.retries, rw.max_retries)
         THEN rw' = [rw EXCEPT !.pc = "call"]
         ELSE rw' = [rw EXCEPT !.pc = "returned", !.result = None]

\* try: return func(...)  except: retries += 1; raise on the last one
WrapperCall ==
    /\ rw.pc = "call"
    /\ LET call == rw.calls + 1 IN
       IF FuncRaises(rw.func, call)
         THEN IF RetryRaises(rw.retries, rw.max_retries)
                THEN rw' = [rw EXCEPT !.calls = call, !.retries = @ + 1,
                                      !.pc = "raised", !.raised = call]
                ELSE rw' = [rw EXCEPT !.calls = call, !.retries = @ + 1,
                                      !.pc = "sleep"]
         ELSE rw' = [rw EXCEPT !.calls = call, !.pc = "returned",
                               !.result = rw.func.value]

\* time.sleep(delay)
WrapperSleep ==
    /\ rw.pc = "sleep"
    /\ rw' = [rw EXCEPT !.sleeps = @ + 1, !.pc = "loop"]

RetryNext ==
    \/ WrapperLoop /\ UNCHANGED <<planVars, jobVars, cleanVars, serviceVars>>
    \/ WrapperCall /\ UNCHANGED <<planVars, jobVars, cleanVars, serviceVars>>
    \/ WrapperSleep /\ UNCHANGED <<planVars, jobVars, cleanVars, serviceVars>>

RetrySpecInit ==
    /\ RetryInit
    /\ PlanIdle
    /\ JobsIdle
    /\ CleanIdle
    /\ ServiceIdle

SpecRetry == RetrySpecInit /\ [][RetryNext]_vars

(***************************************************************************)
(* retry_on_exception (decorators/decorator.py, random_number_decorator.py) *)
(***************************************************************************)
MaxAttempts == 3      \* largest max_attempts tried in SpecAttempts

\* while attempts < max_attempts
AttemptLoopContinues(attempts, max_attempts) == attempts < max_attempts

AttemptsInit ==
    rw \in { [max_attempts |-> n, func |-> [always |-> a, fails |-> k, value |-> v],
              pc |-> "loop", attempts |-> 0, calls |-> 0, sleeps |-> 0,
              result |-> None, raised |-> 0] :
             n \in 0..MaxAttempts, a \in BOOLEAN, k \in 0..MaxFailures, v \in Values }

\* the loop test; after the loop the wrapper returns None (line 17 of
\* decorator.py, the end of the function in random_number_decorator.py)
AttemptLoop ==
    /\ rw.pc = "loop"
    /\ IF AttemptLoopContinues(rw.attempts, rw.max_attempts)
         THEN rw' = [rw EXCEPT !.pc = "call"]
         ELSE rw' = [rw EXCEPT !.pc = "returned", !.result = None]

\* try: return func(...)  except Exception: attempts += 1; print
AttemptCall ==
    /\ rw.pc = "call"
    /\ LET call == rw.calls + 1 IN
       IF FuncRaises(rw.func, call)
         THEN rw' = [rw EXCEPT !.calls = call, !.attempts = @ + 1, !.pc = "sleep"]
         ELSE rw' = [rw EXCEPT !.calls = call, !.pc = "returned",
                               !.result = rw.func.value]

\* time.sleep(wait_time), after every failed attempt
AttemptSleep ==
    /\ rw.pc = "sleep"
    /\ rw' = [rw EXCEPT !.sleeps = @ + 1, !.pc = "loop"]

AttemptsNext ==
    \/ AttemptLoop /\ UNCHANGED <<planVars, jobVars, cleanVars, serviceVars>>
    \/ AttemptCall /\ UNCHANGED <<planVars, jobVars, cleanVars, serviceVars>>
    \/ AttemptSleep /\ UNCHANGED <<planVars, jobVars, cleanVars, serviceVars>>

AttemptsSpecInit ==
    /\ AttemptsInit
    /\ PlanIdle
    /\ JobsIdle
    /\ CleanIdle
    /\ ServiceIdle

SpecAttempts == AttemptsSpecInit /\ [][AttemptsNext]_vars

(***************************************************************************)
(* split_media: the planning arithmetic                                    *)
(***************************************************************************)
MiB == 1024                 \* KiB per MiB: the code's 1024 * 1024 bytes

\* A float is held as the rational it denotes, in lowest terms.
RECURSIVE GCD(_, _)
GCD(a, b) == IF b = 0 THEN a ELSE GCD(b, a % b)

Rat(n, d) == LET g == GCD(n, d) IN [num |-> n \div g, den |-> d \div g]

RECURSIVE Pow2(_)
Pow2(k) == IF k = 0 THEN 1 ELSE 2 * Pow2(k - 1)

\* Round-to-nearest, ties-to-even, of n/d > 0 to a binary float with a
\* significand of PrecisionBits bits (IEEE 754 binary64 has 53).  n/d is first
\* scaled by a power of two into [2^(P-1), 2^P), rounded to an integer there,
\* and scaled back.
RECURSIVE ScaleUp(_, _, _)
ScaleUp(n, d, up) ==
    IF n < d * Pow2(PrecisionBits - 1) THEN ScaleUp(2 * n, d, up + 1)
    ELSE [n |-> n, d |-> d, up |-> up, down |-> 0]

RECURSIVE ScaleDown(_, _, _)
ScaleDown(n, d, down) ==
    IF n >= d * Pow2(PrecisionBits) THEN ScaleDown(n, 2 * d, down + 1)
    ELSE [n |-> n, d |-> d, up |-> 0, down |-> down]

RoundHalfEven(n, d) ==
    LET m == n \div d
        r == n - m * d
    IN  IF 2 * r > d \/ (2 * r = d /\ m % 2 = 1) THEN m + 1 ELSE m

Round(q) ==
    IF q.num = 0 THEN q
    ELSE LET sc == IF q.num < q.den * Pow2(PrecisionBits - 1)
                     THEN ScaleUp(q.num, q.den, 0)
                     ELSE ScaleDown(q.num, q.den, 0)
             m  == RoundHalfEven(sc.n, sc.d)
         IN  Rat(m * Pow2(sc.down), Pow2(sc.up))

\* int -> float, float * float, float / float, math.ceil
Float(n) == Round([num |-> n, den |-> 1])
FMul(a, b) == Round(Rat(a.num * b.num, a.den * b.den))
FDiv(a, b) == Round(Rat(a.num * b.den, a.den * b.num))
Ceil(q) == (q.num + q.den - 1) \div q.den

EvenChunkDuration(duration, chunk_bytes, file_size) ==
    FDiv(Float(duration), Float(Ceil(Rat(file_size, chunk_bytes))))

\* chunk_duration = duration * (chunk_size_mb * 1024 * 1024) / file_size
ChunkDuration(duration, chunk_bytes, file_size) ==
    FDiv(FMul(Float(duration), Float(chunk_bytes)), Float(file_size))

\* num_chunks = math.ceil(duration / chunk_duration)
NumChunks(duration, cd) == Ceil(FDiv(Float(duration), cd))

\* start_time = i * chunk_duration
StartTime(i, cd) == FMul(Float(i), cd)

NeedsSplittingFromThreshold(file_size, max_size_mb) == file_size >= max_size_mb * MiB

\* get_file_size_mb(file_path) > max_size_mb
NeedsSplitting(file_size, max_size_mb) == file_size > max_size_mb * MiB

\* Durations: short ones, and the largest whole numbers of seconds whose
\* significand takes all the bits of a float.
FullDurations == { Pow2(PrecisionBits) - k : k \in 1..MaxDuration }

PlanInputs ==
    (((0..MaxDuration) \cup FullDurations) \X (1..MaxSize) \X (1..MaxChunkBytes))
        \cup {<<300, 30 * MiB, 20 * MiB>>}

PlanInit ==
    sp \in { [duration |-> in[1], file_size |-> in[2], chunk_bytes |-> in[3],
              pc |-> "probe", chunk_duration |-> None, num_chunks |-> 0,
              i |-> 0, windows |-> <<>>] : in \in PlanInputs }

\* duration = get_media_duration(...); if not duration: raise
PlanProbeFails ==
    /\ sp.pc = "probe"
    /\ sp.duration = 0
    /\ sp' = [sp EXCEPT !.pc = "raised"]

\* chunk_duration and num_chunks
PlanCompute ==
    /\ sp.pc = "probe"
    /\ sp.duration # 0
    /\ LET cd == ChunkDuration(sp.duration, sp.chunk_bytes, sp.file_size) IN
       sp' = [sp EXCEPT !.pc = "loop", !.chunk_duration = cd,
                        !.num_chunks = NumChunks(sp.duration, cd)]

\* one iteration of for i in range(num_chunks): -ss start_time -t chunk_duration
PlanWindow ==
    /\ sp.pc = "loop"
    /\ sp.i < sp.num_chunks
    /\ sp' = [sp EXCEPT !.i = @ + 1,
                        !.windows = Append(@, [index |-> sp.i,
                                               start |-> StartTime(sp.i, sp.chunk_duration),
                                               duration |-> sp.chunk_duration])]

\* the loop ends: return chunks
PlanReturn ==
    /\ sp.pc = "loop"
    /\ sp.i >= sp.num_chunks
    /\ sp' = [sp EXCEPT !.pc = "done"]

PlanNext ==
    \/ PlanProbeFails /\ UNCHANGED <<retryVars, jobVars, cleanVars, serviceVars>>
    \/ PlanCompute /\ UNCHANGED <<retryVars, jobVars, cleanVars, serviceVars>>
    \/ PlanWindow /\ UNCHANGED <<retryVars, jobVars, cleanVars, serviceVars>>
    \/ PlanReturn /\ UNCHANGED <<retryVars, jobVars, cleanVars, serviceVars>>

PlanSpecInit ==
    /\ PlanInit
    /\ RetryIdle
    /\ JobsIdle
    /\ CleanIdle
    /\ ServiceIdle

SpecPlan == PlanSpecInit /\ [][PlanNext]_vars

(***************************************************************************)
(* Sessions, jobs and background workers (transcriber_app.py)              *)
(***************************************************************************)
MaxJobs == 2                \* submissions in one behaviour
MaxResets == 1              \* resets in one behaviour

SplitThresholdMB == 25      \* needs_splitting(file_path, max_size_mb=25)
ChunkSizeMB == 20           \* split_media(file_path, chunk_size_mb=20)
ChunkRetries == 3           \* @retry_on_error(max_retries=3) on transcribe_file_chunk
UrlRetries == 3             \* @retry_on_error(max_retries=3) on transcribe_from_url

\* A worker is the request handler of a submission followed by the thread it
\* starts.  Its fields are the locals of the code: user_data (the dict it
\* holds), chunks and transcripts (transcribe_file), result, exc (the
\* exception on its way to the except block), downloaded_file; attempts is
\* the number of calls the retry wrapper made for the latest chunk; epoch is
\* history, the number of resets of the session when the job was submitted.
\* Absent keys of a job record are modelled as None.
JobIds == 1..MaxJobs
FileSizes == {25 * MiB, 30 * MiB}
Durations == {300}          \* what ffprobe reports when it reports a duration
DownloadSizes == {30 * MiB} \* what an enhanced URL downloads
Words == <<"a", "b", "c", "d">>
\* what the remote transcription returns for the i-th chunk of a recording
ChunkText(i) == <<IF i <= Len(Words) THEN Words[i] ELSE "z">>
\* what it returns for a recording as a whole
WholeText == <<"w">>
NotFound == [status |-> "not found"]

IdleWorker ==
    [pc |-> "idle", kind |-> None, session_id |-> None, user_data |-> 0,
     file_size |-> 0, num_chunks |-> 0, chunks |-> <<>>, transcripts |-> <<>>,
     attempts |-> 0, result |-> NoText, exc |-> None, downloaded_file |-> 0,
     epoch |-> 0]

NewStore == [transcriptions |-> <<>>, processing_jobs |-> <<>>]

JobDataStarted(j, kind) ==
    [job_id |-> j, status |-> "processing",
     source |-> IF kind = "enhanced" THEN "enhanced_url"
                ELSE IF kind = "url" THEN "url" ELSE None,
     transcription |-> NoText, error |-> None,
     file_path |-> IF kind = "file" THEN "upload" ELSE None, summary |-> None]

\* job_data / the dict stored at submission
JobData(j, kind) ==
    [job_id |-> j,
     status |-> IF kind = "enhanced" THEN "downloading" ELSE "queued",
     source |-> IF kind = "enhanced" THEN "enhanced_url"
                ELSE IF kind = "url" THEN "url" ELSE None,
     transcription |-> NoText,
     error |-> None,
     file_path |-> IF kind = "file" THEN "upload" ELSE None,
     summary |-> None]

\* transcription_data, with file_path = transcriptions/<job_id>.txt
TranscriptionData(j, kind, result) ==
    [job_id |-> j, status |-> "completed",
     source |-> IF kind = "enhanced" THEN "enhanced_url" ELSE kind,
     transcription |-> result, error |-> None, file_path |-> "transcript",
     summary |-> None]

FailedUpdateKeepsStatus(rec, e) == [rec EXCEPT !.error = e]
FailedUpdateDropsError(rec, e) == [rec EXCEPT !.status = "failed"]

\* dict.update({'status': 'failed', 'error': str(e), ...})
FailedUpdate(rec, e) == [rec EXCEPT !.status = "failed", !.error = e]

JoinNoSeparator(ts) ==
    IF ts = <<>> THEN <<>>
    ELSE LET F[k \in 1..Len(ts)] == IF k = 1 THEN ts[1] ELSE F[k - 1] \o ts[k]
         IN  F[Len(ts)]

\* " ".join(transcripts)
Join(ts) ==
    IF ts = <<>> THEN <<>>
    ELSE LET F[k \in 1..Len(ts)] ==
                 IF k = 1 THEN ts[1] ELSE F[k - 1] \o <<" ">> \o ts[k]
         IN  F[Len(ts)]

\* a name that an existing file may have
UsedTemp == IF tmpfiles = {} THEN Cardinality(tmpfiles) + 1
            ELSE CHOOSE n \in tmpfiles : TRUE

\* tempfile.NamedTemporaryFile(delete=False): a name no existing file has.
\* The model takes the least such name, so a name is reused as soon as it is free.
FreshTemp == CHOOSE n \in 1..(Cardinality(tmpfiles) + 1) :
                 /\ n \notin tmpfiles
                 /\ \A m \in 1..(n - 1) : m \in tmpfiles

Range(f) == { f[x] : x \in DOMAIN f }

\* an assignment that overwrites every value of the dict
PutEverywhere(d, k, v) == [x \in DOMAIN d \cup {k} |-> v]

\* d[k] = v on a dict
Put(d, k, v) == [x \in DOMAIN d \cup {k} |-> IF x = k THEN v ELSE d[x]]

JobsInit ==
    /\ user_sessions = [s \in Sessions |-> 0]
    /\ stores = [s \in Sessions |-> <<>>]
    /\ workers = [j \in JobIds |-> IdleWorker]
    /\ tmpfiles = {}
    /\ transcription_files = <<>>
    /\ resetting = {}
    /\ ghost = [resets |-> [s \in Sessions |-> 0],
                chunk_files |-> [j \in JobIds |-> {}],
                operations |-> [j \in JobIds |-> 0],
                cleanups |-> [j \in JobIds |-> 0],
                downloads |-> [j \in JobIds |-> 0]]

\* session ids are random uuids: the model names them in the order of their
\* first request
SessionOrder(s) == s = "s2" => user_sessions["s1"] # 0

\* get_or_create_session: user_sessions[session_id] = {...} when absent
SessionsAfterTouch(s) ==
    IF user_sessions[s] = 0 THEN [user_sessions EXCEPT ![s] = Len(stores[s]) + 1]
    ELSE user_sessions

StoresAfterTouch(s) ==
    IF user_sessions[s] = 0 THEN [stores EXCEPT ![s] = Append(@, NewStore)] ELSE stores

\* upload_file / transcribe_url / enhanced_url_processing up to the point where
\* the handler holds user_data and a new job_id
SubmitBegin(j, s, kind, size) ==
    /\ workers[j].pc = "idle"
    /\ \A i \in 1..(j - 1) : workers[i].pc # "idle"
    /\ SessionOrder(s)
    /\ user_sessions' = SessionsAfterTouch(s)
    /\ stores' = StoresAfterTouch(s)
    /\ workers' = [workers EXCEPT ![j] =
           [IdleWorker EXCEPT !.pc = "submitting", !.kind = kind,
                              !.session_id = s,
                              !.user_data = SessionsAfterTouch(s)[s],
                              !.file_size = size,
                              !.epoch = ghost.resets[s]]]
    /\ UNCHANGED <<tmpfiles, transcription_files, ghost, otherVars, requestVars>>

\* user_data['processing_jobs'][job_id] = job_data; thread.start()
SubmitCommit(j) ==
    LET w == workers[j] IN
    /\ w.pc = "submitting"
    /\ stores' = [stores EXCEPT ![w.session_id][w.user_data].processing_jobs =
                      Put(@, j, JobData(j, w.kind))]
    /\ workers' = [workers EXCEPT ![j].pc = "start"]
    /\ UNCHANGED <<user_sessions, tmpfiles, transcription_files, ghost, otherVars, requestVars>>

\* the store a file or url worker takes as user_data (line 181)
WorkerStore(w) == user_sessions[w.session_id]

\* process_transcription_async, lines 181-182
WorkerStart(j) ==
    LET w == workers[j]
        ud == WorkerStore(w)
    IN
    /\ w.pc = "start"
    /\ w.kind \in {"file", "url"}
    /\ IF j \in DOMAIN stores[w.session_id][ud].processing_jobs
         THEN /\ stores' = [stores EXCEPT ![w.session_id][ud].processing_jobs[j].status = "processing"]
              /\ workers' = [workers EXCEPT ![j].user_data = ud,
                     ![j].pc = IF w.kind = "file" THEN "transcribe_file" ELSE "url_attempt"]
         ELSE /\ stores' = stores
              /\ workers' = [workers EXCEPT ![j].user_data = ud,
                     ![j].exc = "KeyError", ![j].pc = "except"]
    /\ UNCHANGED <<user_sessions, tmpfiles, transcription_files, ghost, otherVars, requestVars>>

\* process_enhanced_url, line 603 (user_data is the closure's)
EnhancedStart(j) ==
    LET w == workers[j] IN
    /\ w.pc = "start"
    /\ w.kind = "enhanced"
    /\ stores' = [stores EXCEPT ![w.session_id][w.user_data].processing_jobs[j].status = "downloading"]
    /\ workers' = [workers EXCEPT ![j].pc = "download"]
    /\ UNCHANGED <<user_sessions, tmpfiles, transcription_files, ghost, otherVars, requestVars>>

\* URLService.download_from_url(url) returns a file; status 'transcribing'
DownloadOk(j) ==
    LET w == workers[j] IN
    /\ w.pc = "download"
    /\ tmpfiles' = tmpfiles \cup {FreshTemp}
    /\ stores' = [stores EXCEPT ![w.session_id][w.user_data].processing_jobs[j].status = "transcribing"]
    /\ workers' = [workers EXCEPT ![j].downloaded_file = FreshTemp,
                                  ![j].pc = "transcribe_file"]
    /\ ghost' = [ghost EXCEPT !.downloads[j] = @ + 1]
    /\ UNCHANGED <<user_sessions, transcription_files, otherVars, requestVars>>

\* URLService.download_from_url(url) raises
DownloadFails(j) ==
    /\ workers[j].pc = "download"
    /\ workers' = [workers EXCEPT ![j].exc = "download failed", ![j].pc = "except"]
    /\ ghost' = [ghost EXCEPT !.downloads[j] = @ + 1]
    /\ UNCHANGED <<user_sessions, stores, tmpfiles, transcription_files, otherVars, requestVars>>

\* transcribe_file_chunk without its decorator's limit: the call is repeated
\* until it returns
RetryRunUntilReturn(max_retries, fails, retries) ==
    [outcome |-> "returned", calls |-> fails + 1]

\* A decorated function run to its end: func raises on its first `fails`
\* calls.  The loop of the wrapper, with its sleeps left out.
RECURSIVE RetryRun(_, _, _)
RetryRun(max_retries, fails, retries) ==
    IF ~RetryLoopContinues(retries, max_retries)
      THEN [outcome |-> "returned None", calls |-> retries]
    ELSE IF retries + 1 <= fails
      THEN IF RetryRaises(retries, max_retries)
             THEN [outcome |-> "raised", calls |-> retries + 1]
             ELSE RetryRun(max_retries, fails, retries + 1)
    ELSE [outcome |-> "returned", calls |-> retries + 1]

\* transcribe_file, the file is at most 25 MB: transcribe_file_chunk(file_path)
\* under its decorator; the remote call fails `fails` times
TranscribeWhole(j, fails) ==
    LET w == workers[j]
        run == RetryRun(ChunkRetries, fails, 0)
    IN
    /\ w.pc = "transcribe_file"
    /\ ~NeedsSplitting(w.file_size, SplitThresholdMB)
    /\ workers' = [workers EXCEPT
           ![j].attempts = run.calls,
           ![j].result = IF run.outcome = "returned" THEN WholeText ELSE NoText,
           ![j].exc = IF run.outcome = "raised" THEN "chunk failed" ELSE None,
           ![j].pc = IF run.outcome = "raised" THEN "except" ELSE "save"]
    /\ ghost' = [ghost EXCEPT !.operations[j] = @ + 1]
    /\ UNCHANGED <<user_sessions, stores, tmpfiles, transcription_files, otherVars, requestVars>>

\* transcribe_file: is_ffmpeg_available() is false
FfmpegMissing(j) ==
    LET w == workers[j] IN
    /\ w.pc = "transcribe_file"
    /\ NeedsSplitting(w.file_size, SplitThresholdMB)
    /\ workers' = [workers EXCEPT ![j].exc = "ffmpeg not available", ![j].pc = "except"]
    /\ UNCHANGED <<user_sessions, stores, tmpfiles, transcription_files, ghost, otherVars, requestVars>>

\* split_media: get_media_duration returns None
ProbeFails(j) ==
    LET w == workers[j] IN
    /\ w.pc = "transcribe_file"
    /\ NeedsSplitting(w.file_size, SplitThresholdMB)
    /\ workers' = [workers EXCEPT ![j].exc = "no duration", ![j].pc = "except"]
    /\ UNCHANGED <<user_sessions, stores, tmpfiles, transcription_files, ghost, otherVars, requestVars>>

\* split_media, lines 154-162: duration, chunk_duration, num_chunks
SplitPlan(j, duration) ==
    LET w == workers[j] IN
    /\ w.pc = "transcribe_file"
    /\ NeedsSplitting(w.file_size, SplitThresholdMB)
    /\ workers' = [workers EXCEPT
           ![j].num_chunks = NumChunks(duration,
                                 ChunkDuration(duration, ChunkSizeMB * MiB, w.file_size)),
           ![j].chunks = <<>>,
           ![j].pc = "extract"]
    /\ UNCHANGED <<user_sessions, stores, tmpfiles, transcription_files, ghost, otherVars, requestVars>>

\* split_media, one iteration: the temporary file is created, ffmpeg fills it
ExtractOk(j) ==
    LET w == workers[j] IN
    /\ w.pc = "extract"
    /\ tmpfiles' = tmpfiles \cup {FreshTemp}
    /\ workers' = [workers EXCEPT
           ![j].chunks = Append(@, FreshTemp),
           ![j].pc = IF Len(w.chunks) + 1 = w.num_chunks THEN "chunk" ELSE "extract"]
    /\ ghost' = [ghost EXCEPT !.chunk_files[j] = @ \cup {FreshTemp}]
    /\ UNCHANGED <<user_sessions, stores, transcription_files, otherVars, requestVars>>

\* why an extraction fails: ffmpeg exits with an error, or there is no ffmpeg
\* to run (is_ffmpeg_available has looked for ffprobe), which the first
\* extraction finds out
ExtractErrors == {"extract failed", "ffmpeg not found"}

\* split_media, one iteration: the temporary file is created, ffmpeg fails and
\* the exception leaves split_media, whose list of chunks is lost
ExtractFails(j, cause) ==
    LET w == workers[j] IN
    /\ w.pc = "extract"
    /\ cause = "ffmpeg not found" => w.chunks = <<>>
    /\ tmpfiles' = tmpfiles \cup {FreshTemp}
    /\ workers' = [workers EXCEPT ![j].chunks = <<>>,
                                  ![j].exc = cause, ![j].pc = "except"]
    /\ ghost' = [ghost EXCEPT !.chunk_files[j] = @ \cup {FreshTemp}]
    /\ UNCHANGED <<user_sessions, stores, transcription_files, otherVars, requestVars>>

\* a loop that goes on with the next chunk after a chunk has used up its attempts
TranscribeChunkGoesOn(j, fails) ==
    LET w == workers[j]
        run == RetryRun(ChunkRetries, fails, 0)
        ts == Append(w.transcripts,
                     IF run.outcome = "raised" THEN <<>> ELSE ChunkText(Len(w.transcripts) + 1))
    IN
    /\ w.pc = "chunk"
    /\ workers' = [workers EXCEPT
           ![j].attempts = run.calls,
           ![j].transcripts = ts,
           ![j].exc = IF run.outcome = "raised" THEN "chunk failed" ELSE @,
           ![j].result = IF Len(ts) = Len(w.chunks) THEN Join(ts) ELSE NoText,
           ![j].pc = IF Len(ts) = Len(w.chunks) THEN "cleanup" ELSE "chunk"]
    /\ ghost' = [ghost EXCEPT !.operations[j] = @ + 1]
    /\ UNCHANGED <<user_sessions, stores, tmpfiles, transcription_files, otherVars, requestVars>>

\* the loop of lines 134-137, one iteration: transcribe_file_chunk(chunk_path)
\* under its decorator; an attempt fails when the remote call fails or the
\* chunk cannot be opened.  After the last chunk, " ".join(transcripts).
TranscribeChunk(j, fails) ==
    LET w == workers[j]
        path == w.chunks[Len(w.transcripts) + 1]
        run == RetryRun(ChunkRetries, fails, 0)
        ts == Append(w.transcripts, ChunkText(Len(w.transcripts) + 1))
    IN
    /\ w.pc = "chunk"
    /\ path \notin tmpfiles => fails = ChunkRetries
    /\ IF run.outcome = "raised"
         THEN workers' = [workers EXCEPT ![j].attempts = run.calls,
                                         ![j].exc = "chunk failed", ![j].pc = "cleanup"]
         ELSE workers' = [workers EXCEPT
                  ![j].attempts = run.calls,
                  ![j].transcripts = ts,
                  ![j].result = IF Len(ts) = Len(w.chunks) THEN Join(ts) ELSE NoText,
                  ![j].pc = IF Len(ts) = Len(w.chunks) THEN "cleanup" ELSE "chunk"]
    /\ ghost' = [ghost EXCEPT !.operations[j] = @ + 1]
    /\ UNCHANGED <<user_sessions, stores, tmpfiles, transcription_files, otherVars, requestVars>>

\* history: the names in `removed` no longer name the files they named
Forget(removed) ==
    [ghost EXCEPT !.chunk_files = [i \in JobIds |-> @[i] \ removed]]

\* cleanup_temp_files(file_paths): what is left of the files
CleanedUp(files, paths) == files \ Range(paths)

\* finally: cleanup_temp_files(chunks); then return or re-raise
Cleanup(j) ==
    LET w == workers[j] IN
    /\ w.pc = "cleanup"
    /\ tmpfiles' = CleanedUp(tmpfiles, w.chunks)
    /\ workers' = [workers EXCEPT ![j].chunks = <<>>, ![j].attempts = 0,
                                  ![j].pc = IF w.exc = None THEN "save" ELSE "except"]
    /\ ghost' = [Forget(Range(w.chunks)) EXCEPT !.cleanups[j] = @ + 1]
    /\ UNCHANGED <<user_sessions, stores, transcription_files, otherVars, requestVars>>

\* transcribe_from_url(url) under its decorator: download and transcription in
\* one retried call
TranscribeUrl(j, fails) ==
    LET w == workers[j]
        run == RetryRun(UrlRetries, fails, 0)
    IN
    /\ w.pc = "url_attempt"
    /\ workers' = [workers EXCEPT
           ![j].attempts = run.calls,
           ![j].result = IF run.outcome = "returned" THEN WholeText ELSE NoText,
           ![j].exc = IF run.outcome = "raised" THEN "url failed" ELSE None,
           ![j].pc = IF run.outcome = "raised" THEN "except" ELSE "save"]
    /\ ghost' = [ghost EXCEPT !.operations[j] = @ + 1]
    /\ UNCHANGED <<user_sessions, stores, tmpfiles, transcription_files, otherVars, requestVars>>

\* with open(transcription_file, 'w') as f: f.write(result)
SaveFile(j) ==
    LET w == workers[j] IN
    /\ w.pc = "save"
    /\ transcription_files' = Put(transcription_files, j, w.result)
    /\ workers' = [workers EXCEPT ![j].attempts = 0, ![j].pc = "append"]
    /\ UNCHANGED <<user_sessions, stores, tmpfiles, ghost, otherVars, requestVars>>

\* open(transcription_file, 'w') raises (no such directory, disk full)
SaveFails(j) ==
    LET w == workers[j] IN
    /\ w.pc = "save"
    /\ workers' = [workers EXCEPT ![j].attempts = 0, ![j].result = NoText,
                                  ![j].exc = "save failed", ![j].pc = "except"]
    /\ UNCHANGED <<user_sessions, stores, tmpfiles, transcription_files, ghost, otherVars, requestVars>>

CurrentSessionStore(w) == user_sessions[w.session_id]

\* the store the worker appends its transcription to and puts the record in
CompletionStore(w) == w.user_data

\* user_data['transcriptions'].append(transcription_data)
AppendTranscription(j) ==
    LET w == workers[j] IN
    /\ w.pc = "append"
    /\ stores' = [stores EXCEPT ![w.session_id][CompletionStore(w)].transcriptions =
                      Append(@, TranscriptionData(j, w.kind, w.result))]
    /\ workers' = [workers EXCEPT ![j].pc = "replace"]
    /\ UNCHANGED <<user_sessions, tmpfiles, transcription_files, ghost, otherVars, requestVars>>

\* the dict of job j in a list of transcriptions
ListedRecord(transcriptions, j) ==
    transcriptions[CHOOSE k \in 1..Len(transcriptions) : transcriptions[k].job_id = j]

\* user_data['processing_jobs'][job_id] = transcription_data, the dict that was
\* appended to the list: the list and the map now hold the same object
ReplaceJob(j) ==
    LET w == workers[j] IN
    /\ w.pc = "replace"
    /\ stores' = [stores EXCEPT ![w.session_id][CompletionStore(w)].processing_jobs =
                      Put(@, j, ListedRecord(stores[w.session_id][CompletionStore(w)].transcriptions, j))]
    /\ workers' = [workers EXCEPT ![j].pc = IF w.kind = "enhanced" THEN "remove_download"
                                            ELSE "done"]
    /\ UNCHANGED <<user_sessions, tmpfiles, transcription_files, ghost, otherVars, requestVars>>

\* process_enhanced_url: cleanup_temp_files([downloaded_file]) after success
RemoveDownload(j) ==
    LET w == workers[j] IN
    /\ w.pc = "remove_download"
    /\ tmpfiles' = CleanedUp(tmpfiles, <<w.downloaded_file>>)
    /\ workers' = [workers EXCEPT ![j].downloaded_file = 0, ![j].pc = "done"]
    /\ ghost' = Forget({w.downloaded_file})
    /\ UNCHANGED <<user_sessions, stores, transcription_files, otherVars, requestVars>>

\* the store whose record the except block updates, 0 when its guard is false
FailureStore(j, w) ==
    IF w.kind = "enhanced" THEN w.user_data
    ELSE IF j \in DOMAIN stores[w.session_id][user_sessions[w.session_id]].processing_jobs
           THEN user_sessions[w.session_id]
           ELSE 0

\* except Exception as e: ...update({'status': 'failed', 'error': str(e)})
Except(j) ==
    LET w == workers[j]
        st == FailureStore(j, w)
    IN
    /\ w.pc = "except"
    /\ stores' = IF st = 0 THEN stores
                 ELSE [stores EXCEPT ![w.session_id][st].processing_jobs[j] =
                                          FailedUpdate(@, w.exc)]
    /\ workers' = [workers EXCEPT ![j].attempts = 0, ![j].pc = "done"]
    /\ UNCHANGED <<user_sessions, tmpfiles, transcription_files, ghost, otherVars, requestVars>>

\* reset_session, lines 421-431: the session exists once get_or_create_session
\* has returned, and the files of the listed transcriptions are removed
ResetRemoveFiles(s) ==
    LET old == SessionsAfterTouch(s)[s]
        ts == StoresAfterTouch(s)[s][old].transcriptions
        listed == { ts[k].job_id : k \in 1..Len(ts) }
    IN
    /\ s \notin resetting
    /\ ghost.resets["s1"] + ghost.resets["s2"] + Cardinality(resetting) < MaxResets
    /\ SessionOrder(s)
    /\ user_sessions' = SessionsAfterTouch(s)
    /\ stores' = StoresAfterTouch(s)
    /\ transcription_files' =
           [x \in DOMAIN transcription_files \ listed |-> transcription_files[x]]
    /\ resetting' = resetting \cup {s}
    /\ UNCHANGED <<workers, tmpfiles, ghost, otherVars>>

\* a reset that deletes the session's key
ResetDropsSession(s) ==
    /\ s \in resetting
    /\ user_sessions' = [user_sessions EXCEPT ![s] = 0]
    /\ resetting' = resetting \ {s}
    /\ ghost' = [ghost EXCEPT !.resets[s] = @ + 1]
    /\ UNCHANGED <<stores, workers, tmpfiles, transcription_files, otherVars>>

\* reset_session, lines 434-437: the session's dict is replaced by a new one
ResetReplace(s) ==
    /\ s \in resetting
    /\ stores' = [stores EXCEPT ![s] = Append(@, NewStore)]
    /\ user_sessions' = [user_sessions EXCEPT ![s] = Len(stores[s]) + 1]
    /\ resetting' = resetting \ {s}
    /\ ghost' = [ghost EXCEPT !.resets[s] = @ + 1]
    /\ UNCHANGED <<workers, tmpfiles, transcription_files, otherVars>>

SummarizedLosesText(rec) == [rec EXCEPT !.summary = "summary", !.transcription = NoText]

\* transcription['summary'] = summary; ...['key_topics'], ['summary_timestamp']
Summarized(rec) == [rec EXCEPT !.summary = "summary"]

\* summarize_transcription, the request that finds job_id in the list of the
\* session and gets a summary: the dict found in the list is changed, and it
\* is the dict the job map holds once the worker has put it there
summarize_transcription(s, j) ==
    /\ user_sessions[s] # 0
    /\ LET st == user_sessions[s]
           ts == stores[s][st].transcriptions
           jobs == stores[s][st].processing_jobs
       IN
       /\ \E k \in 1..Len(ts) : ts[k].job_id = j
       /\ ListedRecord(ts, j).status = "completed"
       /\ stores' = [stores EXCEPT
              ![s][st].transcriptions =
                  [k \in 1..Len(ts) |-> IF ts[k].job_id = j THEN Summarized(ts[k]) ELSE ts[k]],
              ![s][st].processing_jobs =
                  IF j \in DOMAIN jobs /\ jobs[j].status = "completed"
                    THEN [jobs EXCEPT ![j] = Summarized(@)] ELSE jobs]
    /\ UNCHANGED <<user_sessions, workers, tmpfiles, transcription_files, ghost, otherVars, requestVars>>

\* user_data = user_sessions[get_or_create_session()] in a request that reads
CurrentStore(s) ==
    IF user_sessions[s] = 0 THEN NewStore ELSE stores[s][user_sessions[s]]

\* a status query that looks the job up in the dicts of every session
JobStatusAnySession(s, j) ==
    IF \E t \in Sessions : j \in DOMAIN CurrentStore(t).processing_jobs
      THEN CurrentStore(CHOOSE t \in Sessions :
                           j \in DOMAIN CurrentStore(t).processing_jobs).processing_jobs[j]
      ELSE NotFound

\* get_job_status: the job's record, or 'Job not found'
get_job_status(s, j) ==
    IF j \in DOMAIN CurrentStore(s).processing_jobs
      THEN CurrentStore(s).processing_jobs[j]
      ELSE NotFound

\* get_transcriptions: the completed list and the values of the job map
get_transcriptions(s) ==
    [transcriptions |-> CurrentStore(s).transcriptions,
     processing_jobs |-> Range(CurrentStore(s).processing_jobs)]

\* download_transcription: the content of the file of the job's entry in the
\* session's list, or a 404
download_transcription(s, j) ==
    LET ts == CurrentStore(s).transcriptions IN
    IF \A k \in 1..Len(ts) : ts[k].job_id # j
      THEN [code |-> 404, body |-> <<"Transcription not found">>]
    ELSE IF j \notin DOMAIN transcription_files
      THEN [code |-> 404, body |-> <<"Transcription file not found">>]
    ELSE [code |-> 200, body |-> transcription_files[j]]

Failures == 0..ChunkRetries   \* failing calls before a remote call succeeds

Next ==
    \/ \E j \in JobIds, s \in Sessions, size \in FileSizes : SubmitBegin(j, s, "file", size)
    \/ \E j \in JobIds, s \in Sessions : SubmitBegin(j, s, "url", 0)
    \/ \E j \in JobIds, s \in Sessions, size \in DownloadSizes : SubmitBegin(j, s, "enhanced", size)
    \/ \E j \in JobIds : SubmitCommit(j)
    \/ \E j \in JobIds : WorkerStart(j)
    \/ \E j \in JobIds : EnhancedStart(j)
    \/ \E j \in JobIds : DownloadOk(j)
    \/ \E j \in JobIds : DownloadFails(j)
    \/ \E j \in JobIds, f \in Failures : TranscribeWhole(j, f)
    \/ \E j \in JobIds : FfmpegMissing(j)
    \/ \E j \in JobIds : ProbeFails(j)
    \/ \E j \in JobIds, d \in Durations : SplitPlan(j, d)
    \/ \E j \in JobIds : ExtractOk(j)
    \/ \E j \in JobIds, cause \in ExtractErrors : ExtractFails(j, cause)
    \/ \E j \in JobIds, f \in Failures : TranscribeChunk(j, f)
    \/ \E j \in JobIds : Cleanup(j)
    \/ \E j \in JobIds, f \in Failures : TranscribeUrl(j, f)
    \/ \E j \in JobIds : SaveFile(j)
    \/ \E j \in JobIds : SaveFails(j)
    \/ \E j \in JobIds : AppendTranscription(j)
    \/ \E j \in JobIds : ReplaceJob(j)
    \/ \E j \in JobIds : RemoveDownload(j)
    \/ \E j \in JobIds : Except(j)
    \/ \E s \in Sessions : ResetRemoveFiles(s)
    \/ \E s \in Sessions : ResetReplace(s)
    \/ \E s \in Sessions, j \in JobIds : summarize_transcription(s, j)

Init ==
    /\ JobsInit
    /\ RetryIdle
    /\ PlanIdle
    /\ CleanIdle
    /\ ServiceIdle

Spec == Init /\ [][Next]_vars

\* the steps of the request that submits job j and of the job's thread
JobStep(j) ==
    \/ SubmitCommit(j)
    \/ WorkerStart(j)
    \/ EnhancedStart(j)
    \/ DownloadOk(j)
    \/ DownloadFails(j)
    \/ \E f \in Failures : TranscribeWhole(j, f)
    \/ FfmpegMissing(j)
    \/ ProbeFails(j)
    \/ \E d \in Durations : SplitPlan(j, d)
    \/ ExtractOk(j)
    \/ \E cause \in ExtractErrors : ExtractFails(j, cause)
    \/ \E f \in Failures : TranscribeChunk(j, f)
    \/ Cleanup(j)
    \/ \E f \in Failures : TranscribeUrl(j, f)
    \/ SaveFile(j)
    \/ SaveFails(j)
    \/ AppendTranscription(j)
    \/ ReplaceJob(j)
    \/ RemoveDownload(j)
    \/ Except(j)

\* where job j is: every step of JobStep(j) changes it
Progress(j) ==
    <<workers[j].pc, Len(workers[j].chunks), Len(workers[j].transcripts)>>

\* the steps of the program when all requests come from one session
NextOneSession ==
    \/ \E j \in JobIds, s \in {"s1"}, size \in FileSizes : SubmitBegin(j, s, "file", size)
    \/ \E j \in JobIds, s \in {"s1"} : SubmitBegin(j, s, "url", 0)
    \/ \E j \in JobIds, s \in {"s1"}, size \in DownloadSizes : SubmitBegin(j, s, "enhanced", size)
    \/ \E j \in JobIds : SubmitCommit(j)
    \/ \E j \in JobIds : WorkerStart(j)
    \/ \E j \in JobIds : EnhancedStart(j)
    \/ \E j \in JobIds : DownloadOk(j)
    \/ \E j \in JobIds : DownloadFails(j)
    \/ \E j \in JobIds, f \in Failures : TranscribeWhole(j, f)
    \/ \E j \in JobIds : FfmpegMissing(j)
    \/ \E j \in JobIds : ProbeFails(j)
    \/ \E j \in JobIds, d \in Durations : SplitPlan(j, d)
    \/ \E j \in JobIds : ExtractOk(j)
    \/ \E j \in JobIds, cause \in ExtractErrors : ExtractFails(j, cause)
    \/ \E j \in JobIds, f \in Failures : TranscribeChunk(j, f)
    \/ \E j \in JobIds : Cleanup(j)
    \/ \E j \in JobIds, f \in Failures : TranscribeUrl(j, f)
    \/ \E j \in JobIds : SaveFile(j)
    \/ \E j \in JobIds : SaveFails(j)
    \/ \E j \in JobIds : AppendTranscription(j)
    \/ \E j \in JobIds : ReplaceJob(j)
    \/ \E j \in JobIds : RemoveDownload(j)
    \/ \E j \in JobIds : Except(j)
    \/ \E s \in {"s1"} : ResetRemoveFiles(s)
    \/ \E s \in {"s1"} : ResetReplace(s)
    \/ \E s \in {"s1"}, j \in JobIds : summarize_transcription(s, j)

\* every thread that can take a step is scheduled in the end, and every
\* external call returns or raises
SpecFair ==
    /\ Init
    /\ [][NextOneSession]_vars
    /\ \A j \in JobIds : WF_Progress(j)(JobStep(j))

(***************************************************************************)
(* cleanup_temp_files (media_utils.py)                                      *)
(***************************************************************************)
MaxPaths == 3         \* longest list of paths given to cleanup_temp_files
MaxFiles == 2         \* most files inside a directory
MaxCalls == 2         \* calls of cleanup_temp_files with the same argument

Paths == {"p1", "p2"}

\* what a path names on the filesystem.  locked: os.unlink of the file, or
\* os.rmdir of the emptied directory, raises (a permission, a mount point);
\* files: for each file of a directory, in the order os.walk lists them,
\* whether its os.unlink raises.  kind "other" is a path that exists and is
\* neither a regular file nor a directory (a dangling symbolic link).
Entry(kind, locked, files) == [kind |-> kind, locked |-> locked, files |-> files]

Absent == Entry("absent", FALSE, <<>>)

FileLists == UNION { [1..n -> BOOLEAN] : n \in 0..MaxFiles }

Entries ==
    {Absent, Entry("other", FALSE, <<>>)}
        \cup { Entry("file", l, <<>>) : l \in BOOLEAN }
        \cup { Entry("dir", l, fl) : l \in BOOLEAN, fl \in FileLists }

\* the argument of a call: one path as a str, or a list of paths
PathLists == UNION { [1..n -> Paths] : n \in 0..MaxPaths }

Arguments ==
    { [str |-> TRUE, path |-> p, list |-> <<>>] : p \in Paths }
        \cup { [str |-> FALSE, path |-> None, list |-> l] : l \in PathLists }

\* lines 192-195: a str becomes a list of one path
Normalise(file_paths) ==
    IF file_paths.str THEN <<file_paths.path>> ELSE file_paths.list

\* a directory walk that gives up after its first file
WalkOneFile(files) ==
    IF files = <<>> THEN <<>>
    ELSE IF Head(files) THEN files ELSE Tail(files)

\* lines 203-207, for a directory without subdirectories: the files are
\* unlinked in order until an os.unlink raises; the result is what is left
RECURSIVE Walk(_)
Walk(files) ==
    IF files = <<>> THEN <<>>
    ELSE IF Head(files) THEN files ELSE Walk(Tail(files))

\* lines 199-209, the body of the try for one path: the entry the path names
\* afterwards, and whether an exception was raised
RemovePath(e) ==
    CASE e.kind = "file" ->
            IF e.locked THEN [entry |-> e, failed |-> TRUE]
            ELSE [entry |-> Absent, failed |-> FALSE]
      [] e.kind = "dir" ->
            LET rest == Walk(e.files) IN
            IF rest # <<>> THEN [entry |-> [e EXCEPT !.files = rest], failed |-> TRUE]
            ELSE IF e.locked
                 THEN [entry |-> [e EXCEPT !.files = <<>>], failed |-> TRUE]
                 ELSE [entry |-> Absent, failed |-> FALSE]
      [] OTHER -> [entry |-> e, failed |-> FALSE]

\* an exception of the try that leaves cleanup_temp_files
Uncaught(c, file_path) ==
    [c EXCEPT !.attempted = Append(@, file_path),
              !.raised = TRUE, !.pc = "returned"]

\* lines 210-211: the exception is caught, a warning is printed and the loop
\* goes on with the next path
Caught(c, file_path) ==
    [c EXCEPT !.attempted = Append(@, file_path),
              !.log = Append(@, <<"warning", file_path>>),
              !.i = @ + 1]

CleanupInit ==
    ct \in { [pc |-> "ready", fs |-> fs, arg |-> a, file_paths |-> <<>>, i |-> 0,
              attempted |-> <<>>, log |-> <<>>, raised |-> FALSE, calls |-> 0,
              first_fs |-> fs, first_log |-> <<>>] :
                 fs \in [Paths -> Entries], a \in Arguments }

\* cleanup_temp_files(file_paths) is called, lines 189-195
CleanupCall ==
    /\ ct.pc \in {"ready", "returned"}
    /\ ~ct.raised
    /\ ct.calls < MaxCalls
    /\ ct' = [ct EXCEPT !.pc = "loop", !.file_paths = Normalise(ct.arg), !.i = 1,
                        !.attempted = <<>>, !.log = <<>>, !.calls = @ + 1]

\* one iteration of the loop of line 197 that raises nothing: the file or the
\* directory is removed and the removal printed, or the path names neither
CleanupRemoves ==
    /\ ct.pc = "loop"
    /\ ct.i <= Len(ct.file_paths)
    /\ LET file_path == ct.file_paths[ct.i]
           r == RemovePath(ct.fs[file_path]) IN
       /\ ~r.failed
       /\ ct' = [ct EXCEPT !.fs[file_path] = r.entry,
                           !.attempted = Append(@, file_path),
                           !.log = IF ct.fs[file_path].kind \in {"file", "dir"}
                                   THEN Append(@, <<"cleaned", file_path>>) ELSE @,
                           !.i = @ + 1]

\* one iteration of the loop of line 197 in which a removal raises
CleanupWarns ==
    /\ ct.pc = "loop"
    /\ ct.i <= Len(ct.file_paths)
    /\ LET file_path == ct.file_paths[ct.i]
           r == RemovePath(ct.fs[file_path]) IN
       /\ r.failed
       /\ ct' = Caught([ct EXCEPT !.fs[file_path] = r.entry], file_path)

\* the loop is over and cleanup_temp_files returns None
CleanupReturn ==
    /\ ct.pc = "loop"
    /\ ct.i > Len(ct.file_paths)
    /\ ct' = [ct EXCEPT !.pc = "returned",
                        !.first_fs = IF ct.calls = 1 THEN ct.fs ELSE @,
                        !.first_log = IF ct.calls = 1 THEN ct.log ELSE @]

CleanupNext ==
    \/ CleanupCall /\ UNCHANGED <<retryVars, planVars, jobVars, serviceVars>>
    \/ CleanupRemoves /\ UNCHANGED <<retryVars, planVars, jobVars, serviceVars>>
    \/ CleanupWarns /\ UNCHANGED <<retryVars, planVars, jobVars, serviceVars>>
    \/ CleanupReturn /\ UNCHANGED <<retryVars, planVars, jobVars, serviceVars>>

CleanupSpecInit ==
    /\ CleanupInit
    /\ RetryIdle
    /\ PlanIdle
    /\ JobsIdle
    /\ ServiceIdle

SpecCleanup == CleanupSpecInit /\ [][CleanupNext]_vars

(***************************************************************************)
(* MediaProcessorService.transcribe (external_services.py)                  *)
(***************************************************************************)
MaxChunks == 3        \* most chunks split_media returns in SpecProcessor

\* the result of one transcribe_small_media call that does not raise: the text,
\* or None when the remote call has failed (lines 150-152)
SmallMediaText(i, failing) == IF i \in failing THEN NoText ELSE ChunkText(i)

\* if text: transcriptions.append(text)
KeepIfText(transcriptions, text) ==
    IF text # NoText /\ text # <<>> THEN Append(transcriptions, text) ELSE transcriptions

ProcessorInit ==
    mp \in { [pc |-> "split", client |-> c, split_ok |-> ok, num_chunks |-> n,
              failing |-> f, chunks |-> <<>>, files |-> {}, i |-> 0,
              transcriptions |-> <<>>, failed |-> {}, result |-> NoText] :
                 c \in BOOLEAN, ok \in BOOLEAN, n \in 1..MaxChunks,
                 f \in SUBSET (1..MaxChunks) }

\* chunks = split_media(file_path, 1) returns its chunk files
ProcessorSplit ==
    /\ mp.pc = "split"
    /\ mp.split_ok
    /\ mp' = [mp EXCEPT !.chunks = [k \in 1..mp.num_chunks |-> k],
                        !.files = 1..mp.num_chunks, !.i = 1, !.pc = "loop"]

\* split_media raises: chunks stays [], the except block is entered
ProcessorSplitFails ==
    /\ mp.pc = "split"
    /\ ~mp.split_ok
    /\ mp' = [mp EXCEPT !.pc = "except"]

\* one iteration of the loop of lines 165-169; without a client
\* transcribe_small_media raises, which ends the loop
ProcessorChunk ==
    /\ mp.pc = "loop"
    /\ mp.i <= Len(mp.chunks)
    /\ IF ~mp.client
         THEN mp' = [mp EXCEPT !.failed = @ \cup {mp.i}, !.pc = "except"]
         ELSE mp' = [mp EXCEPT
                  !.transcriptions = KeepIfText(@, SmallMediaText(mp.i, mp.failing)),
                  !.failed = IF mp.i \in mp.failing THEN @ \cup {mp.i} ELSE @,
                  !.i = @ + 1]

\* return ' '.join(transcriptions)
ProcessorJoin ==
    /\ mp.pc = "loop"
    /\ mp.i > Len(mp.chunks)
    /\ mp' = [mp EXCEPT !.result = Join(mp.transcriptions), !.pc = "finally"]

\* except Exception: print; return None
ProcessorExcept ==
    /\ mp.pc = "except"
    /\ mp' = [mp EXCEPT !.result = NoText, !.pc = "finally"]

\* finally: if chunks: cleanup_temp_files(chunks); the call returns
ProcessorFinally ==
    /\ mp.pc = "finally"
    /\ mp' = [mp EXCEPT !.files = CleanedUp(@, mp.chunks), !.pc = "returned"]

ProcessorNext ==
    \/ ProcessorSplit /\ UNCHANGED <<retryVars, planVars, jobVars, cleanVars>>
    \/ ProcessorSplitFails /\ UNCHANGED <<retryVars, planVars, jobVars, cleanVars>>
    \/ ProcessorChunk /\ UNCHANGED <<retryVars, planVars, jobVars, cleanVars>>
    \/ ProcessorJoin /\ UNCHANGED <<retryVars, planVars, jobVars, cleanVars>>
    \/ ProcessorExcept /\ UNCHANGED <<retryVars, planVars, jobVars, cleanVars>>
    \/ ProcessorFinally /\ UNCHANGED <<retryVars, planVars, jobVars, cleanVars>>

ProcessorSpecInit ==
    /\ ProcessorInit
    /\ RetryIdle
    /\ PlanIdle
    /\ JobsIdle
    /\ CleanIdle

SpecProcessor == ProcessorSpecInit /\ [][ProcessorNext]_vars

(***************************************************************************)
(* Properties of the retry wrapper (checked under SpecRetry)               *)
(***************************************************************************)
RetryFinished == rw.pc \in {"returned", "raised"}

\* C1: for N >= 1, retry_on_error(max_retries=N) around a function that raises
\* on every call calls it exactly N times, sleeps exactly N-1 times (never after
\* the last failure) and re-raises the N-th exception; it never returns.
C1_AlwaysFailingRaisesAfterN ==
    (rw.max_retries >= 1 /\ rw.func.always) =>
        /\ rw.pc # "returned"
        /\ rw.calls <= rw.max_retries
        /\ rw.sleeps <= rw.max_retries - 1
        /\ rw.result = None
        /\ RetryFinished =>
              /\ rw.pc = "raised"
              /\ rw.calls = rw.max_retries
              /\ rw.sleeps = rw.max_retries - 1
              /\ rw.raised = rw.max_retries

C1_Witness ==
    /\ rw.func.always
    /\ rw.max_retries = 3
    /\ rw.pc = "raised"
    /\ rw.calls = 3
    /\ rw.sleeps = 2

\* C2: for N >= 1 and 0 <= k < N, retry_on_error(max_retries=N) around a
\* function that raises on its first k calls and then returns v calls it
\* exactly k+1 times, sleeps exactly k times and returns v; the function is
\* not called again once it has returned.
C2_SucceedsAfterKFailures ==
    (rw.max_retries >= 1 /\ ~rw.func.always /\ rw.func.fails < rw.max_retries) =>
        /\ rw.pc # "raised"
        /\ rw.calls <= rw.func.fails + 1
        /\ rw.sleeps <= rw.func.fails
        /\ RetryFinished =>
              /\ rw.pc = "returned"
              /\ rw.result = rw.func.value
              /\ rw.calls = rw.func.fails + 1
              /\ rw.sleeps = rw.func.fails

C2_Witness ==
    /\ ~rw.func.always
    /\ rw.func.fails = 2
    /\ rw.max_retries = 3
    /\ rw.pc = "returned"
    /\ rw.result = rw.func.value
    /\ rw.calls = 3

(***************************************************************************)
(* Properties of the chunk plan (checked under SpecPlan)                   *)
(***************************************************************************)
RatEq(a, b) == a.num * b.den = b.num * a.den
RatLess(a, b) == a.num * b.den < b.num * a.den
RatLeq(a, b) == a.num * b.den <= b.num * a.den
RatAdd(a, b) == Rat(a.num * b.den + b.num * a.den, a.den * b.den)
RatInt(n) == [num |-> n, den |-> 1]

RECURSIVE SumDurations(_)
SumDurations(ws) ==
    IF ws = <<>> THEN RatInt(0)
    ELSE RatAdd(ws[1].duration, SumDurations(Tail(ws)))

\* The least n with n * T >= S: ceil(D / (D*T/S)) = ceil(S/T) over the reals
RealCount == CHOOSE n \in 1..sp.file_size :
                 /\ n * sp.chunk_bytes >= sp.file_size
                 /\ (n - 1) * sp.chunk_bytes < sp.file_size

\* C3: for D, S, T > 0 split_media plans exactly ceil(D / (D*T/S)) windows,
\* indexed 0..count-1, all of one chunk_duration, whose durations sum to less
\* than D plus one chunk_duration: no window starts at or after the end of the
\* artifact.  (Of the claim, the equalities between floats and the lower bound
\* of the sum, which hold up to rounding only, are left out.)
C3_PlanCoversDuration ==
    (sp.pc = "done") =>
        LET n == Len(sp.windows)
            D == RatInt(sp.duration)
        IN  /\ n = RealCount
            /\ \A k \in 1..n :
                  /\ sp.windows[k].index = k - 1
                  /\ sp.windows[k].duration = sp.chunk_duration
                  /\ RatLess(sp.windows[k].start, D)
            /\ RatLess(SumDurations(sp.windows), RatAdd(D, sp.chunk_duration))

\* The scenario of C4: 30 MB, 300 s, split threshold 25 MB, target chunk 20 MB.
Scenario30MB ==
    /\ sp.duration = 300
    /\ sp.file_size = 30 * MiB
    /\ sp.chunk_bytes = 20 * MiB
    /\ NeedsSplitting(sp.file_size, 25)
    /\ sp.pc = "done"

\* C4 as stated: the plan for the 30 MB / 300 s artifact is 2 windows of 150 s.
C4_Original ==
    Scenario30MB =>
        /\ Len(sp.windows) = 2
        /\ \A k \in 1..Len(sp.windows) : RatEq(sp.windows[k].duration, RatInt(150))

\* C4 (amended): the plan for the 30 MB / 300 s artifact with a 20 MB target is
\* 2 windows of nominal duration 200 s, starting at 0 s and 200 s.
C4_TwoWindowsOf200 ==
    Scenario30MB =>
        /\ Len(sp.windows) = 2
        /\ \A k \in 1..Len(sp.windows) : RatEq(sp.windows[k].duration, RatInt(200))
        /\ sp.windows[1].start = RatInt(0)
        /\ sp.windows[2].start = RatInt(200)

C4_Witness == Scenario30MB /\ Len(sp.windows) = 2

(***************************************************************************)
(* Properties of sessions, jobs and workers (checked under Spec)           *)
(***************************************************************************)
\* the records job j has, in any dict a session has or had
RecordsOf(j) ==
    { stores[s][k].processing_jobs[j] :
        <<s, k>> \in { x \in Sessions \X (1..(MaxResets + 1)) :
                        /\ x[2] <= Len(stores[x[1]])
                        /\ j \in DOMAIN stores[x[1]][x[2]].processing_jobs } }

\* the jobs listed as completed, in any dict a session has or had
ListedJobs ==
    UNION { { stores[s][k].transcriptions[i].job_id :
                i \in 1..Len(stores[s][k].transcriptions) } :
            <<s, k>> \in { x \in Sessions \X (1..(MaxResets + 1)) :
                            x[2] <= Len(stores[x[1]]) } }

RECURSIVE SpaceJoined(_)
SpaceJoined(ts) ==
    IF ts = <<>> THEN <<>>
    ELSE IF Len(ts) = 1 THEN ts[1]
    ELSE ts[1] \o <<" ">> \o SpaceJoined(Tail(ts))

ChunkTextsInOrder(n) == [i \in 1..n |-> ChunkText(i)]

\* transcribe_file has transcribed every chunk of job j
AllChunksTranscribed(j) ==
    /\ workers[j].num_chunks > 0
    /\ workers[j].exc = None
    /\ workers[j].pc \in {"cleanup", "save", "append", "replace", "remove_download", "done"}

\* C5: when all n chunks of a split job transcribe successfully, the final
\* transcript (what transcribe_file returns, what is written to the transcript
\* file and what a completed record carries) is the chunk texts in increasing
\* index order with exactly one space between consecutive texts, however many
\* attempts each chunk needed.
C5_TranscriptIsSpaceJoinedInOrder ==
    \A j \in JobIds :
        AllChunksTranscribed(j) =>
            LET expected == SpaceJoined(ChunkTextsInOrder(workers[j].num_chunks)) IN
            /\ workers[j].transcripts = ChunkTextsInOrder(workers[j].num_chunks)
            /\ workers[j].result = expected
            /\ j \in DOMAIN transcription_files => transcription_files[j] = expected
            /\ \A r \in RecordsOf(j) : r.status = "completed" => r.transcription = expected

C5_Witness ==
    \E j \in JobIds :
        /\ AllChunksTranscribed(j)
        /\ workers[j].pc = "cleanup"
        /\ workers[j].num_chunks >= 2
        /\ workers[j].attempts > 1
        /\ workers[j].result = <<"a", " ", "b">>

C6_Step(a, b) ==
    \/ a = b
    \/ <<a, b>> \in { <<"queued", "processing">>,
                      <<"processing", "completed">>,
                      <<"processing", "failed">> }

\* C6: in every step, the record of a job submitted as an upload or a plain URL
\* appears with status queued, stays in the dict it was put in, and its status
\* either stays the same or moves queued -> processing, processing -> completed
\* or processing -> failed; completed and failed are never left.
C6_StatusPath ==
    [][ \A s \in Sessions : \A k \in 1..Len(stores'[s]) :
          /\ k <= Len(stores[s]) =>
                DOMAIN stores[s][k].processing_jobs
                    \subseteq DOMAIN stores'[s][k].processing_jobs
          /\ \A j \in DOMAIN stores'[s][k].processing_jobs :
                LET new == stores'[s][k].processing_jobs[j] IN
                workers'[j].kind \in {"file", "url"} =>
                    IF k <= Len(stores[s]) /\ j \in DOMAIN stores[s][k].processing_jobs
                      THEN C6_Step(stores[s][k].processing_jobs[j].status, new.status)
                      ELSE new.status = "queued" ]_vars

C6_Witness ==
    /\ \E j \in JobIds : \E r \in RecordsOf(j) :
           workers[j].kind \in {"file", "url"} /\ r.status = "completed"
    /\ \E j \in JobIds : \E r \in RecordsOf(j) :
           workers[j].kind \in {"file", "url"} /\ r.status = "failed"

\* job j was submitted to its session before a reset of that session
SubmittedBeforeReset(j) ==
    /\ workers[j].pc # "idle"
    /\ workers[j].epoch < ghost.resets[workers[j].session_id]

\* C7: once a session has been reset, neither the status query nor the listing
\* of that session returns a job submitted before the reset, whatever the
\* job's worker does afterwards.
C7_ResetHidesEarlierJobs ==
    \A j \in JobIds :
        SubmittedBeforeReset(j) =>
            LET s == workers[j].session_id IN
            /\ get_job_status(s, j) = NotFound
            /\ \A i \in 1..Len(get_transcriptions(s).transcriptions) :
                   get_transcriptions(s).transcriptions[i].job_id # j
            /\ \A r \in get_transcriptions(s).processing_jobs : r.job_id # j

\* a job submitted before the reset whose worker completed after it: its
\* transcript file was not there for the reset to remove
C7_Witness ==
    \E j \in JobIds :
        /\ SubmittedBeforeReset(j)
        /\ workers[j].pc = "done"
        /\ workers[j].exc = None
        /\ j \in DOMAIN transcription_files
        /\ j \in ListedJobs

\* C8: once the worker of a job is done, no chunk file that split_media created
\* for that job exists.
C8_NoChunkFileAfterJob ==
    \A j \in JobIds :
        workers[j].pc = "done" => ghost.chunk_files[j] \cap tmpfiles = {}

\* C9: when an extraction has failed in split_media, the job produces no
\* transcript and, once transcribe_file has raised, none of the files
\* split_media created for it (the one of the failing extraction included)
\* exists.
C9_FailedSplitRemovesItsFiles ==
    \A j \in JobIds :
        workers[j].exc = "extract failed" =>
            /\ j \notin DOMAIN transcription_files
            /\ workers[j].pc \in {"except", "done"} =>
                   ghost.chunk_files[j] \cap tmpfiles = {}

FailKinds == {"chunk failed", "no duration", "extract failed", "ffmpeg not available",
              "ffmpeg not found"}

\* no transcript of job j is kept anywhere
NoTranscriptKept(j) ==
    /\ j \notin DOMAIN transcription_files
    /\ j \notin ListedJobs
    /\ \A r \in RecordsOf(j) : r.transcription = NoText

\* C10, as stated: after a retry-exhausted transcription, a failed probe or a
\* failed split, the job has a record with status failed and no transcript
\* is kept.
C10_Original ==
    \A j \in JobIds :
        (workers[j].pc = "done" /\ workers[j].exc \in FailKinds) =>
            /\ \E r \in RecordsOf(j) : r.status = "failed"
            /\ NoTranscriptKept(j)

\* C10: after a retry-exhausted transcription, a failed probe or a failed
\* split, no transcript of the job is kept (none in its record, none in a
\* completed list, no transcript file), and the status query of the job's
\* session returns status failed unless the session was reset after the job
\* was submitted.
C10_FailedJobKeepsNoTranscript ==
    \A j \in JobIds :
        workers[j].exc \in FailKinds =>
            /\ NoTranscriptKept(j)
            /\ (workers[j].pc = "done" /\ ~SubmittedBeforeReset(j)) =>
                   get_job_status(workers[j].session_id, j).status = "failed"

C10_Witness ==
    \E j \in JobIds :
        /\ workers[j].pc = "done"
        /\ workers[j].exc = "chunk failed"
        /\ Len(workers[j].transcripts) >= 1
        /\ ~SubmittedBeforeReset(j)
        /\ get_job_status(workers[j].session_id, j).status = "failed"

\* the session of job j has not been reset since the job was submitted, and
\* its status query returns status failed with error e
QueryReturnsFailed(j, e) ==
    LET r == get_job_status(workers[j].session_id, j) IN
    /\ r # NotFound
    /\ r.status = "failed"
    /\ r.error = e

Places == Sessions \X (1..(MaxResets + 1))

\* C12: in every step, a record with status failed stays as it is, status
\* failed with the same error, which is a string; the status query of a session
\* that returned the failed record returns it again unless the step is a reset
\* of that session; a record enters processing only from queued, by the one
\* start of its worker, and a worker never starts again.
C12_FailedStaysFailed ==
    [][ /\ \A x \in Places : \A j \in JobIds :
             (/\ x[2] <= Len(stores[x[1]])
              /\ j \in DOMAIN stores[x[1]][x[2]].processing_jobs) =>
                 LET old == stores[x[1]][x[2]].processing_jobs[j]
                     new == stores'[x[1]][x[2]].processing_jobs[j]
                 IN
                 /\ old.status = "failed" =>
                        new = old /\ old.error # None
                 /\ (new.status = "processing" /\ old.status # "processing") =>
                        /\ old.status = "queued"
                        /\ workers[j].pc = "start"
                        /\ workers'[j].pc # "start"
        /\ \A s \in Sessions : \A j \in JobIds :
             (/\ get_job_status(s, j).status = "failed"
              /\ ghost'.resets[s] = ghost.resets[s]) =>
                 get_job_status(s, j)' = get_job_status(s, j)
        /\ \A j \in JobIds :
             /\ workers'[j].pc = "start" => workers[j].pc \in {"submitting", "start"}
             /\ workers[j].pc = "done" => workers'[j].pc = "done" ]_vars

C12_Witness ==
    \E j \in JobIds, i \in JobIds :
        /\ i # j
        /\ workers[j].pc = "done"
        /\ get_job_status(workers[j].session_id, j).status = "failed"
        /\ get_job_status(workers[j].session_id, j).error # None
        /\ workers[i].session_id = workers[j].session_id
        /\ workers[i].pc = "done"

\* C13: once the worker of an enhanced-URL job is done, the file it downloaded
\* does not exist, whether the job completed or failed.
C13_DownloadRemovedOnEveryExit ==
    \A j \in JobIds :
        (workers[j].kind = "enhanced" /\ workers[j].pc = "done") =>
            \/ workers[j].downloaded_file = 0
            \/ workers[j].downloaded_file \notin tmpfiles

AllRecords == UNION { RecordsOf(j) : j \in JobIds }

\* C15, as stated: for every job record, the transcript is present iff the
\* status is completed, an error is present iff the status is failed, and a
\* file path is present iff the status is completed.
C15_Original ==
    \A r \in AllRecords :
        /\ r.transcription # NoText <=> r.status = "completed"
        /\ r.error # None <=> r.status = "failed"
        /\ r.file_path # None <=> r.status = "completed"

\* C15: for every job record, the transcript is present iff the status is
\* completed, an error is present iff the status is failed, and the file path
\* of the record is that of the transcript file iff the status is completed.
C15_FieldsFollowStatus ==
    \A r \in AllRecords :
        /\ r.transcription # NoText <=> r.status = "completed"
        /\ r.error # None <=> r.status = "failed"
        /\ r.file_path = "transcript" <=> r.status = "completed"

\* an upload that failed, with the path of the uploaded file still in its
\* record, next to a completed job
C15_Witness ==
    /\ \E r \in AllRecords :
          r.status = "failed" /\ r.file_path = "upload" /\ r.error # None
    /\ \E r \in AllRecords :
          r.status = "completed" /\ r.file_path = "transcript" /\ r.transcription # NoText

\* transcribe_file has been called for job j and has taken its decision
Dispatched(j) ==
    /\ workers[j].kind \in {"file", "enhanced"}
    /\ workers[j].pc \notin {"idle", "submitting", "start", "download", "transcribe_file"}
    /\ workers[j].exc \notin {"KeyError", "download failed"}

\* C16: once transcribe_file has decided, an artifact of at most 25 MB has no
\* split plan and no chunk file, and exactly one transcription operation was
\* started for it, which made between 1 and 3 attempts (3 when it raised); an
\* artifact above 25 MB has a split plan or has failed for lack of ffmpeg or of
\* a duration, and was never transcribed as a whole.
C16_SplitIffAboveThreshold ==
    \A j \in JobIds :
        Dispatched(j) =>
            IF workers[j].file_size <= SplitThresholdMB * MiB
              THEN /\ workers[j].num_chunks = 0
                   /\ ghost.chunk_files[j] = {}
                   /\ ghost.operations[j] = 1
                   /\ workers[j].attempts <= ChunkRetries
                   /\ workers[j].pc = "save" => workers[j].attempts >= 1
                   /\ (workers[j].pc = "except" /\ workers[j].exc = "chunk failed") =>
                          workers[j].attempts = ChunkRetries
              ELSE /\ \/ workers[j].num_chunks > 0
                      \/ workers[j].exc \in {"ffmpeg not available", "no duration"}
                   /\ workers[j].num_chunks = 0 => ghost.operations[j] = 0
                   /\ ghost.operations[j] <= workers[j].num_chunks
                   /\ workers[j].result = NoText \/ workers[j].result # WholeText

\* an artifact of exactly 25 MB transcribed as a whole at the third attempt,
\* next to an artifact above 25 MB that has been split
C16_Witness ==
    \E j \in JobIds, i \in JobIds :
        /\ Dispatched(j)
        /\ workers[j].file_size = SplitThresholdMB * MiB
        /\ workers[j].pc = "save"
        /\ workers[j].attempts = ChunkRetries
        /\ workers[j].result = WholeText
        /\ Dispatched(i)
        /\ workers[i].file_size > SplitThresholdMB * MiB
        /\ ghost.chunk_files[i] # {}

\* C17: when splitting is required and there is no ffmpeg, whether
\* is_ffmpeg_available has noticed it or the first extraction has,
\* transcribe_file raises with no attempt and no transcription operation made
\* and no chunk file created; the worker ends, and the status query then
\* returns status failed with that error (unless the session was reset after
\* the job was submitted).
C17_MissingFfmpegFailsAtOnce ==
    \A j \in JobIds :
        workers[j].exc \in {"ffmpeg not available", "ffmpeg not found"} =>
            /\ workers[j].file_size > SplitThresholdMB * MiB
            /\ workers[j].pc \in {"except", "done"}
            /\ workers[j].attempts = 0
            /\ ghost.operations[j] = 0
            /\ ghost.chunk_files[j] = {}
            /\ (workers[j].pc = "done" /\ ~SubmittedBeforeReset(j)) =>
                   QueryReturnsFailed(j, workers[j].exc)


\* C18: once the worker of a job whose file needed splitting has ended,
\* cleanup_temp_files has been called on its chunks exactly once, whether all
\* chunks were transcribed, a chunk used up its attempts or the splitting
\* failed.
C18_CleanupExactlyOnce ==
    \A j \in JobIds :
        (/\ workers[j].pc = "done"
         /\ workers[j].kind # "url"
         /\ NeedsSplitting(workers[j].file_size, SplitThresholdMB)) =>
            ghost.cleanups[j] = 1

(***************************************************************************)
(* Properties of cleanup_temp_files (checked under SpecCleanup)            *)
(***************************************************************************)
\* C19: when a call of cleanup_temp_files is over it has returned without
\* raising, and it has gone through every path of the collection in order,
\* whichever removals failed on the way; a call that is still running has
\* gone through exactly the paths before its current one.
C19_EveryPathAttempted ==
    /\ ~ct.raised
    /\ ct.pc = "loop" => ct.attempted = SubSeq(ct.file_paths, 1, ct.i - 1)
    /\ ct.pc = "returned" => ct.attempted = ct.file_paths

\* a call has returned in which the removal of one path failed and a later
\* path was removed
C19_Witness ==
    /\ ct.pc = "returned"
    /\ ~ct.raised
    /\ \E k, m \in 1..Len(ct.log) :
           /\ k < m
           /\ ct.log[k][1] = "warning"
           /\ ct.log[m][1] = "cleaned"
           /\ ct.fs[ct.log[k][2]].kind # "absent"
           /\ ct.fs[ct.log[m][2]].kind = "absent"

\* C20: every call of cleanup_temp_files after the first one, with the same
\* paths, returns without raising and leaves the filesystem as the first call
\* left it.
C20_SecondCallChangesNothing ==
    (ct.pc = "returned" /\ ct.calls >= 2) =>
        /\ ~ct.raised
        /\ ct.fs = ct.first_fs

\* the second call has returned after a first call that removed one path and
\* failed on another, which the second call has tried again
C20_Witness ==
    /\ ct.pc = "returned"
    /\ ct.calls = 2
    /\ ct.fs = ct.first_fs
    /\ \E k \in 1..Len(ct.first_log) : ct.first_log[k][1] = "cleaned"
    /\ \E k \in 1..Len(ct.first_log) : ct.first_log[k][1] = "warning"
    /\ \E k \in 1..Len(ct.log) : ct.log[k][1] = "warning"

(***************************************************************************)
(* Properties of retry_on_exception (checked under SpecAttempts)           *)
(***************************************************************************)
\* C21: for N >= 1, retry_on_exception(max_attempts=N) around an operation
\* that raises on every call ends by raising the failure of the N-th call to
\* its caller, having slept N-1 times (not after the last failed attempt)
\* and having returned no value.
C21_AlwaysFailingPropagates ==
    (/\ rw.func.always
     /\ rw.max_attempts >= 1
     /\ rw.pc \in {"returned", "raised"}) =>
        /\ rw.pc = "raised"
        /\ rw.raised = rw.max_attempts
        /\ rw.calls = rw.max_attempts
        /\ rw.sleeps = rw.max_attempts - 1


\* the downloads attempted for a job: each call of transcribe_from_url starts
\* with one, an enhanced-URL job makes them through URLService
DownloadAttempts(j) ==
    IF workers[j].kind = "url" THEN workers[j].attempts ELSE ghost.downloads[j]

\* C22: a job is about to become failed because of its download only after
\* the download has been attempted as many times as the retry wrapper allows.
C22_DownloadIsRetried ==
    \A j \in JobIds :
        (/\ workers[j].pc = "except"
         /\ workers[j].exc \in {"download failed", "url failed"}) =>
            DownloadAttempts(j) = UrlRetries


C24_SessionKeyStays ==
    [][ \A s \in Sessions :
          /\ user_sessions[s] # 0 => user_sessions'[s] # 0
          /\ (user_sessions[s] = 0 /\ user_sessions'[s] # 0) =>
                 /\ CurrentStore(s)' = NewStore
                 /\ \/ s \in resetting' \ resetting
                    \/ \E j \in JobIds : /\ workers[j].pc = "idle"
                                          /\ workers'[j].pc = "submitting"
                                          /\ workers'[j].session_id = s
          /\ ghost'.resets[s] # ghost.resets[s] =>
                 /\ user_sessions'[s] # 0
                 /\ CurrentStore(s)' = NewStore ]_vars

\* a session that had a job has been reset: its key is there, bound to empty
\* contents, and the dict it was bound to before still holds the job
C24_Witness ==
    \E s \in Sessions :
        /\ ghost.resets[s] = 1
        /\ user_sessions[s] = 2
        /\ CurrentStore(s) = NewStore
        /\ stores[s][1].processing_jobs # <<>>


\* C25: in every step that starts a transcription operation of a job that was
\* split, the chunk it is for is the one after the chunks transcribed so far,
\* every operation before it has returned a text, and none has failed; the
\* operation either returns its text within ChunkRetries attempts, and the
\* text is put after those of the chunks before it, or uses up ChunkRetries
\* attempts, and from then on the job starts no operation.
C25_ChunksInOrderUntilFailure ==
    [][ \A j \in JobIds :
          /\ (ghost'.operations[j] # ghost.operations[j] /\ workers[j].num_chunks > 0) =>
                 LET w == workers[j]
                     i == Len(w.transcripts) + 1
                 IN
                 /\ ghost'.operations[j] = ghost.operations[j] + 1
                 /\ ghost.operations[j] = Len(w.transcripts)
                 /\ i <= Len(w.chunks)
                 /\ w.exc = None
                 /\ \/ /\ workers'[j].transcripts = Append(w.transcripts, ChunkText(i))
                       /\ workers'[j].attempts \in 1..ChunkRetries
                       /\ workers'[j].exc = None
                    \/ /\ workers'[j].transcripts = w.transcripts
                       /\ workers'[j].attempts = ChunkRetries
                       /\ workers'[j].exc = "chunk failed"
          /\ workers[j].exc = "chunk failed" =>
                 /\ ghost'.operations[j] = ghost.operations[j]
                 /\ workers'[j].transcripts = workers[j].transcripts
                 /\ workers'[j].exc = "chunk failed" ]_vars

\* the first chunk was transcribed and the second chunk has used up its
\* attempts: the job is over with two operations started and one text kept
C25_Witness ==
    \E j \in JobIds :
        /\ workers[j].pc = "done"
        /\ workers[j].num_chunks >= 2
        /\ workers[j].exc = "chunk failed"
        /\ workers[j].transcripts = <<ChunkText(1)>>
        /\ ghost.operations[j] = 2


\* C26: under fair scheduling, every job that is submitted leads to a state
\* in which the status query of its session returns completed or failed for
\* it, or in which its session has been reset since the submission.
C26_EveryJobEnds ==
    \A j \in JobIds :
        (workers[j].pc # "idle") ~>
            /\ workers[j].pc # "idle"
            /\ \/ get_job_status(workers[j].session_id, j).status \in {"completed", "failed"}
               \/ SubmittedBeforeReset(j)

\* a job of a session that was never reset has ended after a retried chunk
C26_Witness ==
    \E j \in JobIds :
        /\ workers[j].pc = "done"
        /\ ghost.resets[workers[j].session_id] = 0
        /\ ghost.operations[j] >= 2
        /\ get_job_status(workers[j].session_id, j).status \in {"completed", "failed"}


\* C27: what one listing request of a session returns never disagrees about
\* a job: the job is in the list of transcriptions if and only if its record
\* among the processing jobs has status completed.
C27_ListAndMapAgree ==
    \A s \in Sessions : \A j \in JobIds :
        LET listing == get_transcriptions(s) IN
        (\E k \in 1..Len(listing.transcriptions) : listing.transcriptions[k].job_id = j)
            <=> (\E r \in listing.processing_jobs : r.job_id = j /\ r.status = "completed")


\* C28: every record in a session's list of transcriptions has the path of
\* its transcript file, and the file exists and holds the record's text.
C28_ListedJobHasItsFile ==
    \A s \in Sessions :
        LET ts == get_transcriptions(s).transcriptions IN
        \A k \in 1..Len(ts) :
            /\ ts[k].file_path = "transcript"
            /\ ts[k].job_id \in DOMAIN transcription_files
            /\ transcription_files[ts[k].job_id] = ts[k].transcription


(***************************************************************************)
(* Properties of MediaProcessorService.transcribe (under SpecProcessor)    *)
(***************************************************************************)
\* C29: when MediaProcessorService.transcribe has returned and the
\* transcription of one of its chunks had failed, what it returned is None,
\* not a text.
C29_ChunkFailureIsReported ==
    (mp.pc = "returned" /\ mp.failed # {}) => mp.result = NoText


\* the places where the job map holds a record under key j
PlacesOf(j) ==
    { x \in Places : /\ x[2] <= Len(stores[x[1]])
                     /\ j \in DOMAIN stores[x[1]][x[2]].processing_jobs }

\* all that is stored about job j: its records in the job maps and its
\* entries in the lists of transcriptions
StoredAbout(j) ==
    [x \in Places |->
        IF x[2] > Len(stores[x[1]]) THEN << <<>>, <<>> >>
        ELSE << IF j \in DOMAIN stores[x[1]][x[2]].processing_jobs
                  THEN <<stores[x[1]][x[2]].processing_jobs[j]>> ELSE <<>>,
                SelectSeq(stores[x[1]][x[2]].transcriptions,
                          LAMBDA r : r.job_id = j) >>]

\* C30: in every step, each job whose submission has stored its record has
\* exactly one record, under its own id, and at most one entry in a list, and
\* a job not yet submitted has none; a thread is started for a job only by
\* the step that stores the job's record, once; and a step of a worker
\* changes nothing that is stored about a job other than the worker's own.
C30_OneRecordOneWorker ==
    [][ \A j \in JobIds :
          /\ Cardinality(PlacesOf(j))' =
                 IF workers'[j].pc \in {"idle", "submitting"} THEN 0 ELSE 1
          /\ \A x \in PlacesOf(j)' :
                 /\ stores'[x[1]][x[2]].processing_jobs[j].job_id = j
                 /\ Len(StoredAbout(j)'[x][2]) <= 1
                 /\ \A y \in Places \ {x} :
                        y[2] <= Len(stores'[y[1]]) => StoredAbout(j)'[y][2] = <<>>
          /\ (workers'[j].pc = "start" /\ workers[j].pc # "start") =>
                 /\ workers[j].pc = "submitting"
                 /\ PlacesOf(j) = {}
          /\ workers[j].pc \notin {"idle", "submitting"} =>
                 workers'[j].pc \notin {"idle", "submitting", "start"} \/ workers'[j] = workers[j]
          /\ \A i \in JobIds :
                 (i # j /\ workers'[i] # workers[i]) => StoredAbout(j)' = StoredAbout(j) ]_vars

\* two jobs of one session have ended, one completed and one failed, each
\* with its one record
C30_Witness ==
    \E i, j \in JobIds :
        /\ workers[i].pc = "done" /\ workers[j].pc = "done"
        /\ workers[i].session_id = workers[j].session_id
        /\ PlacesOf(i) = PlacesOf(j)
        /\ get_job_status(workers[i].session_id, i).status = "completed"
        /\ get_job_status(workers[j].session_id, j).status = "failed"


\* C31: the status query, the listing and the download of a session return
\* nothing of a job that was submitted in another session.
C31_SessionsAreIsolated ==
    \A s \in Sessions : \A j \in JobIds :
        (workers[j].pc # "idle" /\ workers[j].session_id # s) =>
            /\ get_job_status(s, j) = NotFound
            /\ \A r \in get_transcriptions(s).processing_jobs : r.job_id # j
            /\ \A k \in 1..Len(get_transcriptions(s).transcriptions) :
                   get_transcriptions(s).transcriptions[k].job_id # j
            /\ download_transcription(s, j).code = 404
            /\ download_transcription(s, j).body = <<"Transcription not found">>

\* each of two sessions has a completed job: its own session can query and
\* download it, the other session cannot
C31_Witness ==
    \E i, j \in JobIds :
        /\ workers[i].pc = "done" /\ workers[j].pc = "done"
        /\ workers[i].session_id = "s1" /\ workers[j].session_id = "s2"
        /\ get_job_status("s1", i).status = "completed"
        /\ download_transcription("s1", i).code = 200
        /\ get_job_status("s2", j).status = "completed"
        /\ download_transcription("s2", j).code = 200
        /\ get_job_status("s2", i) = NotFound
        /\ download_transcription("s1", j).code = 404


\* the chunk paths job j holds: those split_media has made for it and
\* cleanup_temp_files has not yet been given
ChunkPaths(j) == Range(workers[j].chunks)

\* C32: the chunk paths of a job are distinct, no path is held by two jobs,
\* no chunk path is the download of a job, and every chunk path a job holds
\* names a file that exists: no cleanup of another job has removed it.
C32_ChunkPathsAreDisjoint ==
    \A j \in JobIds :
        /\ Cardinality(ChunkPaths(j)) = Len(workers[j].chunks)
        /\ ChunkPaths(j) \subseteq tmpfiles
        /\ \A i \in JobIds \ {j} :
               /\ ChunkPaths(i) \cap ChunkPaths(j) = {}
               /\ workers[i].downloaded_file \notin ChunkPaths(j)

\* a job has been cleaned up while another job, split while the first one
\* held its chunks, still has a chunk to transcribe and all its files
C32_Witness ==
    \E i, j \in JobIds :
        /\ i # j
        /\ ghost.cleanups[i] = 1
        /\ workers[j].pc = "chunk"
        /\ ChunkPaths(j) = {3, 4}
        /\ ChunkPaths(j) \subseteq tmpfiles
        /\ 1 \notin tmpfiles


\* the transcription operations transcribe_file may start for job j: one for
\* an artifact it does not split, one per chunk of the plan for one it splits
OperationsAllowed(j) ==
    IF NeedsSplitting(workers[j].file_size, SplitThresholdMB)
      THEN workers[j].num_chunks
      ELSE 1

\* C33: a job of transcribe_file starts at most one transcription operation per
\* chunk of its plan (one in all for an unsplit artifact), each operation is
\* for the chunk after those already transcribed, and each makes between 1 and
\* 3 remote calls: at most 3 calls for a chunk, 3*n for n chunks, 3 unsplit.
C33_CallsAreBounded ==
    /\ [](\A j \in JobIds :
            workers[j].kind \in {"file", "enhanced"} =>
                /\ workers[j].attempts <= ChunkRetries
                /\ ghost.operations[j] <= OperationsAllowed(j))
    /\ [][\A j \in JobIds :
            (workers[j].kind \in {"file", "enhanced"}
               /\ ghost.operations[j]' # ghost.operations[j]) =>
                /\ ghost.operations[j]' = ghost.operations[j] + 1
                /\ ghost.operations[j] = Len(workers[j].transcripts)
                /\ workers[j].attempts' \in 1..ChunkRetries]_vars

\* a split artifact whose two chunks each took three calls, the second of
\* which raised, next to an unsplit artifact transcribed at the third call
C33_Witness ==
    \E i, j \in JobIds :
        /\ workers[j].kind \in {"file", "enhanced"}
        /\ workers[j].num_chunks = 2
        /\ ghost.operations[j] = 2
        /\ workers[j].attempts = ChunkRetries
        /\ workers[j].exc = "chunk failed"
        /\ workers[i].kind \in {"file", "enhanced"}
        /\ ~NeedsSplitting(workers[i].file_size, SplitThresholdMB)
        /\ ghost.operations[i] = 1
        /\ workers[i].attempts = ChunkRetries
        /\ workers[i].pc = "save"


\* C34: whenever the artifact is above the split threshold (size / target
\* above 25 / 20), the plan of split_media has at least 2 chunks, and as many
\* as ceil(size / target chunk bytes), whatever the duration.
C34_ChunkCountFromSizes ==
    (/\ sp.pc \in {"loop", "done"}
     /\ sp.file_size * ChunkSizeMB > sp.chunk_bytes * SplitThresholdMB) =>
        /\ sp.num_chunks >= 2
        /\ sp.num_chunks = Ceil(Rat(sp.file_size, sp.chunk_bytes))


\* C35: with max_retries <= 0 the wrapper of retry_on_error leaves its loop at
\* the first test: it never calls the wrapped function, never sleeps, never
\* raises, and returns None.
C35_NoRetriesNoCall ==
    /\ [](rw.max_retries <= 0 =>
            /\ rw.calls = 0
            /\ rw.sleeps = 0
            /\ rw.raised = 0
            /\ rw.pc \in {"loop", "returned"}
            /\ rw.pc = "returned" => rw.result = None)
    /\ [][(rw.max_retries <= 0 /\ rw.pc = "loop") => rw'.pc = "returned"]_vars

\* the wrapper has returned None for max_retries = -1 around a function that
\* would have returned a value at its first call
C35_Witness ==
    /\ rw.max_retries < 0
    /\ ~rw.func.always
    /\ rw.func.fails = 0
    /\ rw.pc = "returned"
    /\ rw.result = None
    /\ rw.calls = 0

====
